---- MODULE Spec2Model ----
(***************************************************************************)
(* Model of the focus-time tracker in src/src/main.rs: the two global      *)
(* statics WINDOWS and LAST_FOCUS_CHANGE, each behind its own Mutex, and   *)
(* the operations wt_init, wt_update / add_or_update_window,               *)
(* wt_get_window_count, wt_get_window_info, wt_get_all_windows and         *)
(* wt_cleanup, called from several threads.                                *)
(*                                                                         *)
(* Time is counted in integer clock ticks; a bucket's f64 seconds are the  *)
(* integer number of ticks credited to it (floating-point rounding is not  *)
(* modelled).  SystemTime::now() reads the variable clock, which the       *)
(* environment may advance, or step backward, between any two steps of any *)
(* thread.  A call that starts by taking the WINDOWS mutex is modelled     *)
(* from the moment it gets the mutex.                                      *)
(***************************************************************************)
EXTENDS Integers, Sequences, FiniteSets, TLC

\* ---------------------------------------------------------------- bounds
MaxClock == 2      \* number of times the wall clock changes in one run
MaxCalls == 4      \* number of calls of the wt_ functions in one run
MaxIters == 3      \* number of iterations of the loop of main in one run

\* ------------------------------------------------------------- constants
\* the intervals of main, in units of 100 ms
UpdateInterval  == 1    \* Duration::from_millis(100)
DisplayInterval == 10   \* Duration::from_secs(1)

Threads  == {"t1", "t2"}
Titles   == {"X", "Y"}
NoThread == "none"

\* the three #[cfg] variants of mod platform
Backends == {"windows", "macos", "linux"}

\* the indices wt_get_window_info is called with: every position the map
\* can have, and one past them
Indices == 0..Cardinality(Titles)

\* Option<T>: None is the empty sequence, Some(x) the one-element sequence
None    == <<>>
Some(x) == <<x>>

\* LAST_FOCUS_CHANGE before its lazy_static initialiser has run
Uninit == -1

VARIABLES
  clock,      \* the wall clock read by SystemTime::now()
  moves,      \* number of changes of the wall clock so far
  calls,      \* number of calls made so far
  windows,    \* WINDOWS: function from the recorded titles to ticks
  order,      \* iteration order of the WINDOWS HashMap (a sequence of keys)
  last,       \* LAST_FOCUS_CHANGE, or Uninit
  wLock,      \* holder of the WINDOWS mutex, or NoThread
  lLock,      \* holder of the LAST_FOCUS_CHANGE mutex, or NoThread
  pc,         \* position of each thread
  cur,        \* wt_update's local current_time, per thread
  title,      \* the title passed to add_or_update_window, per thread
  ret,        \* the value a read accessor has just returned, until the
              \* next step of a thread
  \* history variables (not program state)
  owner,      \* the caller of the latest wt_init, while the run since then
              \* is that caller's alone: successful updates and reads
  runStamp,   \* the timestamp that wt_init stored (Uninit without owner)
  hist,       \* the owner's successful polls <<title, current_time>>
  clearKind,  \* "init"/"cleanup": the latest reset, while no credit follows
  sinceVal,   \* for "init" the stored timestamp, for "cleanup"
              \* LAST_FOCUS_CHANGE as it was before the cleanup
  observed,   \* titles credited since the latest clear of the map
  snapA,      \* an earlier wt_get_all_windows snapshot, no clear since
  skips,      \* failed probes since the latest credit or wt_init store
  dropped,    \* buckets the latest reset discarded, while no credit follows
  inited,     \* a wt_init has returned
  skipBase,   \* LAST_FOCUS_CHANGE as it was at the first of the failed
              \* probes counted by skips (Uninit when skips = 0)
  backend,    \* the platform module the build selected with #[cfg]
  displays,   \* X display connections opened and not yet closed
  main        \* the locals of fn main and its position, see MainStart

vars == <<clock, moves, calls, windows, order, last, wLock, lLock, pc, cur,
          title, ret, owner, runStamp, hist, clearKind, sinceVal, observed,
          snapA, skips, dropped, inited, skipBase, backend, displays, main>>

\* ------------------------------------------------------------ pure helpers
EmptyMap == [x \in {} |-> 0]

RECURSIVE SumOver(_, _)
SumOver(f, S) == IF S = {} THEN 0
                 ELSE LET x == CHOOSE y \in S : TRUE
                      IN f[x] + SumOver(f, S \ {x})

\* sum of all bucket values
Sum(f) == SumOver(f, DOMAIN f)

\* the iteration orders a HashMap holding the keys S may have
Perms(S) == {s \in [1..Cardinality(S) -> S] :
               \A i, j \in 1..Cardinality(S) : i # j => s[i] # s[j]}

\* the elapsed time as it would be without the unwrap_or
ElapsedUnclamped(lastv, now) == now - lastv

\* last_focus_change.elapsed().unwrap_or(Duration::from_secs(0)):
\* elapsed() reads the clock itself (now) and fails when the stored time is
\* later than that reading
Elapsed(lastv, now) == IF now >= lastv THEN now - lastv ELSE 0

\* first dereference of LAST_FOCUS_CHANGE runs its initialiser SystemTime::now()
Deref(lastv, now) == IF lastv = Uninit THEN now ELSE lastv

\* the Windows backend of platform::get_active_window_title
GetActiveWindowTitle(hwndValid, text) ==
  IF ~hwndValid THEN None
  ELSE IF Len(text) > 0 THEN Some(text) ELSE None

\* windows.get_mut(title) += elapsed, or windows.insert(title, elapsed)
Credit(f, t, e) ==
  IF t \in DOMAIN f THEN [f EXCEPT ![t] = @ + e]
  ELSE [x \in DOMAIN f \cup {t} |-> IF x = t THEN e ELSE f[x]]

\* ------------------------------------------------- what the accessors read
\* windows.len()
WindowsLen == Cardinality(DOMAIN windows)

\* nth as it would be with the index off by one
IterNthOffByOne(index) ==
  IF index + 2 <= Len(order)
  THEN Some(<<order[index + 2], windows[order[index + 2]]>>)
  ELSE None

\* windows.iter().nth(index).map(|(k, &v)| (k.clone(), v))
IterNth(index) ==
  IF index + 1 <= Len(order)
  THEN Some(<<order[index + 1], windows[order[index + 1]]>>)
  ELSE None

\* windows.iter().map(|(k, &v)| (k.clone(), v)).collect()
IterCollect == [i \in 1..Len(order) |-> <<order[i], windows[order[i]]>>]

\* ------------------------------------------------------------------- Init
\* fn main before its first statement: at is the statement it is at, now the
\* reading of the monotonic clock Instant::now(), lastDisplay the local
\* last_display; the other fields record what main has done: the number of
\* wt_init calls that returned, of loop iterations completed, of wt_update
\* calls that returned in this iteration, whether this iteration found the
\* display due and whether it printed the block, what it printed as count,
\* and how many entries it printed
MainStart ==
  [at |-> "init", now |-> 0, lastDisplay |-> 0, inits |-> 0, iter |-> 0,
   updates |-> 0, due |-> FALSE, rendered |-> FALSE,
   printedCount |-> -1, printedEntries |-> -1]

\* The statics are lazy: before the first call WINDOWS is an empty map and
\* LAST_FOCUS_CHANGE has not been initialised.
InitCommon ==
  /\ clock = 0
  /\ moves = 0
  /\ calls = 0
  /\ windows = EmptyMap
  /\ order = <<>>
  /\ last = Uninit
  /\ wLock = NoThread
  /\ lLock = NoThread
  /\ pc = [t \in Threads |-> "idle"]
  /\ cur = [t \in Threads |-> 0]
  /\ title = [t \in Threads |-> ""]
  /\ ret = None
  /\ owner = NoThread
  /\ runStamp = Uninit
  /\ hist = <<>>
  /\ clearKind = "none"
  /\ sinceVal = Uninit
  /\ observed = {}
  /\ snapA = None
  /\ skips = 0
  /\ dropped = 0
  /\ inited = FALSE
  /\ skipBase = Uninit
  /\ displays = 0
  /\ main = MainStart

\* the build for Windows
Init == InitCommon /\ backend = "windows"

\* the build for any of the three platforms
InitBackends == InitCommon /\ backend \in Backends

\* ------------------------------------------------------------ history
EndRun  == owner' = NoThread /\ runStamp' = Uninit /\ hist' = <<>>
KeepRun == UNCHANGED <<owner, runStamp, hist>>

\* thread t makes a call; the run stays its owner's if t is the owner and
\* the call is not a reset
Started(t, keeps) ==
  /\ calls < MaxCalls
  /\ calls' = calls + 1
  /\ IF owner = t /\ keeps THEN KeepRun ELSE EndRun

\* the map is cleared
Cleared == observed' = {} /\ snapA' = None

\* ------------------------------------------------------------ environment
\* the wall clock advances
Tick ==
  /\ moves < MaxClock
  /\ clock' = clock + 1
  /\ moves' = moves + 1
  /\ UNCHANGED <<calls, windows, order, last, wLock, lLock, pc, cur,
                 title, ret, owner, runStamp, hist, clearKind, sinceVal,
                 observed, snapA, skips,
                 dropped, inited>>
  /\ UNCHANGED skipBase
  /\ UNCHANGED <<backend, displays>>
  /\ UNCHANGED main

\* the wall clock is set backward
ClockBack ==
  /\ clock > 0
  /\ moves < MaxClock
  /\ clock' = clock - 1
  /\ moves' = moves + 1
  /\ EndRun
  /\ UNCHANGED <<calls, windows, order, last, wLock, lLock, pc, cur, title,
                 ret, clearKind, sinceVal, observed, snapA, skips,
                 dropped, inited>>
  /\ UNCHANGED skipBase
  /\ UNCHANGED <<backend, displays>>
  /\ UNCHANGED main

\* ---------------------------------------------------------------- wt_init
\* wt_init as it would be without windows.clear()
WtInitNoClear(t) ==
  /\ pc[t] = "idle"
  /\ wLock = NoThread
  /\ Started(t, FALSE)
  /\ wLock' = t
  /\ ret' = None
  /\ pc' = [pc EXCEPT ![t] = "init_lockL"]
  /\ UNCHANGED <<clock, moves, windows, order, last, lLock, cur, title,
                 clearKind, sinceVal, observed, snapA, skips,
                 dropped, inited>>
  /\ UNCHANGED skipBase
  /\ UNCHANGED <<backend, displays>>
  /\ UNCHANGED main

\* let mut windows = WINDOWS.lock().unwrap(); windows.clear()
WtInit(t) ==
  /\ pc[t] = "idle"
  /\ wLock = NoThread
  /\ Started(t, FALSE)
  /\ wLock' = t
  /\ windows' = EmptyMap
  /\ order' = <<>>
  /\ ret' = None
  /\ pc' = [pc EXCEPT ![t] = "init_lockL"]
  /\ clearKind' = "none"
  /\ sinceVal' = Uninit
  /\ Cleared
  /\ skips' = 0
  /\ dropped' = WindowsLen
  /\ UNCHANGED <<clock, moves, last, lLock, cur, title, inited>>
  /\ skipBase' = Uninit
  /\ UNCHANGED <<backend, displays>>
  /\ UNCHANGED main

\* let mut last_focus_change = LAST_FOCUS_CHANGE.lock().unwrap()
WtInitLockL(t) ==
  /\ pc[t] = "init_lockL"
  /\ lLock = NoThread
  /\ lLock' = t
  /\ last' = Deref(last, clock)
  /\ pc' = [pc EXCEPT ![t] = "init_store"]
  /\ ret' = None
  /\ UNCHANGED <<clock, moves, calls, windows, order, wLock, cur, title,
                 owner, runStamp, hist, clearKind, sinceVal, observed, snapA,
                 skips, dropped, inited>>
  /\ UNCHANGED skipBase
  /\ UNCHANGED <<backend, displays>>
  /\ UNCHANGED main

\* *last_focus_change = SystemTime::now(); both guards are dropped on return
WtInitStore(t) ==
  /\ pc[t] = "init_store"
  /\ last' = clock
  /\ lLock' = NoThread
  /\ wLock' = NoThread
  /\ pc' = [pc EXCEPT ![t] = "idle"]
  /\ inited' = TRUE
  /\ clearKind' = "init"
  /\ sinceVal' = clock
  /\ IF \A u \in Threads \ {t} : pc[u] = "idle"
     THEN owner' = t /\ runStamp' = clock /\ hist' = <<>>
     ELSE EndRun
  /\ ret' = None
  /\ UNCHANGED <<clock, moves, calls, windows, order, cur, title,
                 observed, snapA, dropped>>
  /\ skips' = 0
  /\ skipBase' = Uninit
  /\ UNCHANGED <<backend, displays>>
  /\ UNCHANGED main

\* -------------------------------------------------------------- wt_update
\* wt_update as it would be if it took the WINDOWS mutex before the probe
WtUpdateLocksFirst(t) ==
  /\ pc[t] = "idle"
  /\ wLock = NoThread
  /\ wLock' = t
  /\ Started(t, TRUE)
  /\ cur' = [cur EXCEPT ![t] = clock]
  /\ ret' = None
  /\ pc' = [pc EXCEPT ![t] = "upd_probe"]
  /\ UNCHANGED <<clock, moves, windows, order, last, lLock, title,
                 clearKind, sinceVal, observed, snapA, skips,
                 dropped, inited, skipBase, backend, displays>>
  /\ UNCHANGED main

\* let current_time = SystemTime::now()
WtUpdate(t) ==
  /\ pc[t] = "idle"
  /\ Started(t, TRUE)
  /\ cur' = [cur EXCEPT ![t] = clock]
  /\ ret' = None
  /\ pc' = [pc EXCEPT ![t] = "upd_probe"]
  /\ UNCHANGED <<clock, moves, windows, order, last, wLock, lLock, title,
                 clearKind, sinceVal, observed, snapA, skips,
                 dropped, inited>>
  /\ UNCHANGED skipBase
  /\ UNCHANGED <<backend, displays>>
  /\ UNCHANGED main

\* a skipped observation as it would be if it stored current_time
SkipObservationStoresTime(t) ==
  /\ pc' = [pc EXCEPT ![t] = "idle"]
  /\ cur' = [cur EXCEPT ![t] = 0]
  /\ last' = cur[t]
  /\ EndRun
  /\ skips' = skips + 1
  /\ ret' = None
  /\ UNCHANGED <<clock, moves, calls, windows, order, wLock, lLock, title, clearKind, sinceVal, observed, snapA,
                 dropped, inited>>
  /\ skipBase' = IF skips = 0 THEN last ELSE skipBase

\* the probe returned None: wt_update returns without calling
\* add_or_update_window
SkipObservation(t) ==
  /\ pc' = [pc EXCEPT ![t] = "idle"]
  /\ cur' = [cur EXCEPT ![t] = 0]
  /\ EndRun
  /\ skips' = skips + 1
  /\ ret' = None
  /\ UNCHANGED <<clock, moves, calls, windows, order, last, wLock, lLock,
                 title, clearKind, sinceVal, observed, snapA,
                 dropped, inited>>
  /\ skipBase' = IF skips = 0 THEN last ELSE skipBase

\* the probe returned Some(window_title):
\* add_or_update_window(&window_title, current_time) is called
Observe(t, ttl) ==
  /\ pc' = [pc EXCEPT ![t] = "add_lockW"]
  /\ title' = [title EXCEPT ![t] = ttl]
  /\ ret' = None
  /\ UNCHANGED <<clock, moves, calls, windows, order, last, wLock, lLock, cur,
                 owner, runStamp, hist, clearKind, sinceVal, observed,
                 snapA, skips,
                 dropped, inited>>
  /\ UNCHANGED skipBase

\* if let Some(window_title) = get_active_window_title()
Probe(t) ==
  /\ pc[t] = "upd_probe"
  /\ backend = "windows"
  /\ \E hwndValid \in BOOLEAN, text \in Titles \cup {""} :
       LET r == GetActiveWindowTitle(hwndValid, text)
       IN  IF r = None THEN SkipObservation(t) ELSE Observe(t, r[1])
  /\ UNCHANGED <<backend, displays>>
  /\ UNCHANGED main

\* --------------------------------------------------- add_or_update_window
\* add_or_update_window as it would be without taking the WINDOWS mutex
AddLockWUnlocked(t) ==
  /\ pc[t] = "add_lockW"
  /\ pc' = [pc EXCEPT ![t] = "add_lockL"]
  /\ ret' = None
  /\ UNCHANGED <<clock, moves, calls, windows, order, last, wLock, lLock, cur,
                 title, owner, runStamp, hist, clearKind, sinceVal,
                 observed, snapA, skips,
                 dropped, inited>>
  /\ UNCHANGED skipBase
  /\ UNCHANGED <<backend, displays>>
  /\ UNCHANGED main

\* let mut windows = WINDOWS.lock().unwrap()
AddLockW(t) ==
  /\ pc[t] = "add_lockW"
  /\ wLock = NoThread
  /\ wLock' = t
  /\ pc' = [pc EXCEPT ![t] = "add_lockL"]
  /\ ret' = None
  /\ UNCHANGED <<clock, moves, calls, windows, order, last, lLock, cur, title, owner, runStamp, hist, clearKind, sinceVal, observed,
                 snapA, skips,
                 dropped, inited>>
  /\ UNCHANGED skipBase
  /\ UNCHANGED <<backend, displays>>
  /\ UNCHANGED main

\* let mut last_focus_change = LAST_FOCUS_CHANGE.lock().unwrap()
AddLockL(t) ==
  /\ pc[t] = "add_lockL"
  /\ lLock = NoThread
  /\ lLock' = t
  /\ last' = Deref(last, clock)
  /\ pc' = [pc EXCEPT ![t] = "add_credit"]
  /\ ret' = None
  /\ UNCHANGED <<clock, moves, calls, windows, order, wLock, cur, title,
                 owner, runStamp, hist, clearKind, sinceVal, observed, snapA,
                 skips, dropped, inited>>
  /\ UNCHANGED skipBase
  /\ UNCHANGED <<backend, displays>>
  /\ UNCHANGED main

\* where add_or_update_window returns to: wt_update, which returns at once,
\* or, in the linux build, the XCloseDisplay call after it
ReturnTo(b) == IF b = "linux" THEN "x_close" ELSE "idle"

\* add_or_update_window as it would be if it returned without dropping the
\* WINDOWS guard
AddCreditKeepsGuard(t) ==
  /\ pc[t] = "add_credit"
  /\ LET e == Elapsed(last, clock)
     IN  /\ windows' = Credit(windows, title[t], e)
         /\ IF title[t] \in DOMAIN windows
            THEN order' = order
            ELSE order' \in Perms(DOMAIN windows \cup {title[t]})
  /\ last' = cur[t]
  /\ lLock' = NoThread
  /\ wLock' = wLock
  /\ pc' = [pc EXCEPT ![t] = ReturnTo(backend)]
  /\ cur' = [cur EXCEPT ![t] = 0]
  /\ title' = [title EXCEPT ![t] = ""]
  /\ observed' = observed \cup {title[t]}
  /\ clearKind' = "none"
  /\ sinceVal' = Uninit
  /\ skips' = 0
  /\ dropped' = 0
  /\ hist' = IF owner = t THEN Append(hist, <<title[t], cur[t]>>) ELSE hist
  /\ ret' = None
  /\ UNCHANGED <<clock, moves, calls, owner, runStamp, snapA, inited>>
  /\ skipBase' = Uninit
  /\ UNCHANGED <<backend, displays>>
  /\ UNCHANGED main

\* elapsed_time, the get_mut / insert, *last_focus_change = current_time,
\* and the drop of both guards on return
AddCredit(t) ==
  /\ pc[t] = "add_credit"
  /\ LET e == Elapsed(last, clock)
     IN  /\ windows' = Credit(windows, title[t], e)
         /\ IF title[t] \in DOMAIN windows
            THEN order' = order
            ELSE order' \in Perms(DOMAIN windows \cup {title[t]})
  /\ last' = cur[t]
  /\ lLock' = NoThread
  /\ wLock' = IF wLock = t THEN NoThread ELSE wLock  \* drop of the guard it holds
  /\ pc' = [pc EXCEPT ![t] = ReturnTo(backend)]
  /\ cur' = [cur EXCEPT ![t] = 0]
  /\ title' = [title EXCEPT ![t] = ""]
  /\ observed' = observed \cup {title[t]}
  /\ clearKind' = "none"
  /\ sinceVal' = Uninit
  /\ skips' = 0
  /\ dropped' = 0
  /\ hist' = IF owner = t THEN Append(hist, <<title[t], cur[t]>>) ELSE hist
  /\ ret' = None
  /\ UNCHANGED <<clock, moves, calls, owner, runStamp, snapA, inited>>
  /\ skipBase' = Uninit
  /\ UNCHANGED <<backend, displays>>
  /\ UNCHANGED main

\* ---------------------------------------------------- wt_get_window_count
\* lock, windows.len(), drop of the guard
WtGetWindowCount(t) ==
  /\ pc[t] = "idle"
  /\ wLock = NoThread
  /\ Started(t, TRUE)
  /\ ret' = Some([op |-> "count", arg |-> 0, val |-> WindowsLen])
  /\ UNCHANGED <<clock, moves, windows, order, last, wLock, lLock, pc, cur,
                 title, clearKind, sinceVal, observed, snapA, skips,
                 dropped, inited>>
  /\ UNCHANGED skipBase
  /\ UNCHANGED <<backend, displays>>
  /\ UNCHANGED main

\* ----------------------------------------------------- wt_get_window_info
WtGetWindowInfo(t) ==
  /\ pc[t] = "idle"
  /\ wLock = NoThread
  /\ Started(t, TRUE)
  /\ \E index \in Indices :
       ret' = Some([op |-> "info", arg |-> index, val |-> IterNth(index)])
  /\ UNCHANGED <<clock, moves, windows, order, last, wLock, lLock, pc, cur,
                 title, clearKind, sinceVal, observed, snapA, skips,
                 dropped, inited>>
  /\ UNCHANGED skipBase
  /\ UNCHANGED <<backend, displays>>
  /\ UNCHANGED main

\* ----------------------------------------------------- wt_get_all_windows
\* history: the snapshot is kept as the earlier one of a pair, or it is the
\* later one of a pair whose earlier one is kept
WtGetAllWindows(t) ==
  /\ pc[t] = "idle"
  /\ wLock = NoThread
  /\ Started(t, TRUE)
  /\ ret' = Some([op |-> "all", arg |-> 0, val |-> IterCollect])
  /\ \/ snapA' = Some(IterCollect)
     \/ snapA # None /\ snapA' = snapA
  /\ UNCHANGED <<clock, moves, windows, order, last, wLock, lLock, pc, cur,
                 title, clearKind, sinceVal, observed,
                 skips, dropped, inited>>
  /\ UNCHANGED skipBase
  /\ UNCHANGED <<backend, displays>>
  /\ UNCHANGED main

\* ------------------------------------------------------------- wt_cleanup
\* wt_cleanup as it would be if it reset LAST_FOCUS_CHANGE as wt_init does
WtCleanupResetsTime(t) ==
  /\ pc[t] = "idle"
  /\ wLock = NoThread
  /\ Started(t, FALSE)
  /\ windows' = EmptyMap
  /\ order' = <<>>
  /\ last' = clock
  /\ ret' = None
  /\ clearKind' = "cleanup"
  /\ sinceVal' = last
  /\ Cleared
  /\ dropped' = WindowsLen
  /\ UNCHANGED <<clock, moves, wLock, lLock, pc, cur, title, skips, inited>>
  /\ UNCHANGED skipBase
  /\ UNCHANGED <<backend, displays>>
  /\ UNCHANGED main

\* lock, windows.clear(), drop of the guard
WtCleanup(t) ==
  /\ pc[t] = "idle"
  /\ wLock = NoThread
  /\ Started(t, FALSE)
  /\ windows' = EmptyMap
  /\ order' = <<>>
  /\ ret' = None
  /\ clearKind' = "cleanup"
  /\ sinceVal' = last
  /\ Cleared
  /\ dropped' = WindowsLen
  /\ UNCHANGED <<clock, moves, last, wLock, lLock, pc, cur, title, skips, inited>>
  /\ UNCHANGED skipBase
  /\ UNCHANGED <<backend, displays>>
  /\ UNCHANGED main

\* ------------------------------------------------------------------- Next
ThreadStep(t) ==
  \/ WtInit(t)
  \/ WtInitLockL(t)
  \/ WtInitStore(t)
  \/ WtUpdate(t)
  \/ Probe(t)
  \/ AddLockW(t)
  \/ AddLockL(t)
  \/ AddCredit(t)
  \/ WtGetWindowCount(t)
  \/ WtGetWindowInfo(t)
  \/ WtGetAllWindows(t)
  \/ WtCleanup(t)

\* a wall clock that never goes backward
NextMono == Tick \/ \E t \in Threads : ThreadStep(t)

\* a wall clock that may also be set backward
Next == Tick \/ ClockBack \/ \E t \in Threads : ThreadStep(t)

Spec     == Init /\ [][Next]_vars
SpecMono == Init /\ [][NextMono]_vars

TypeOK ==
  /\ clock \in 0..MaxClock
  /\ last \in {Uninit} \cup (0..MaxClock)
  /\ wLock \in Threads \cup {NoThread}
  /\ lLock \in Threads \cup {NoThread}
  /\ DOMAIN windows \subseteq Titles \cup {""}
  /\ backend \in Backends
  /\ displays \in 0..MaxCalls

\* ------------------------------------------------------- steps, by thread
\* add_or_update_window credits and returns
CreditStep(t) == pc[t] = "add_credit" /\ pc'[t] # "add_credit"

\* wt_update returns after a probe that returned None
SkipStep(t) == pc[t] = "upd_probe" /\ pc'[t] = "idle"

\* wt_init stores the timestamp and returns
InitStoreStep(t) == pc[t] = "init_store" /\ pc'[t] = "idle"

\* a call of wt_cleanup
CleanupStep == calls' = calls + 1 /\ clearKind' = "cleanup"

\* a map with the one bucket k, holding v
OneBucket(k, v) == [x \in {k} |-> v]

\* ===================================================================== C1
\* C1 (additivity): in a run that is one caller's wt_init followed by
\* successful updates only, under a clock that never goes backward, the sum
\* of all buckets equals last_transition_time minus the timestamp that
\* wt_init stored.  Checked under SpecMono.
C1_Additivity ==
  owner # NoThread => Sum(windows) = last - runStamp

\* ===================================================================== C2
\* C2 (end-of-interval attribution, the scenario): after wt_init and three
\* polls of one caller that return X, X, Y at equally spaced, distinct times,
\* the first at the time wt_init stored, there are exactly the buckets X and Y, X
\* holding the first-to-second interval and Y the second-to-third interval.
\* Checked under SpecMono.
C2_EndOfInterval ==
  ( /\ owner # NoThread
    /\ pc[owner] = "idle"
    /\ Len(hist) = 3
    /\ hist[1][1] = hist[2][1]
    /\ hist[3][1] # hist[2][1]
    /\ hist[1][2] = runStamp
    /\ hist[2][2] > hist[1][2]
    /\ hist[2][2] - hist[1][2] = hist[3][2] - hist[2][2] )
  => /\ DOMAIN windows = {hist[1][1], hist[3][1]}
     /\ windows[hist[1][1]] = hist[2][2] - hist[1][2]
     /\ windows[hist[3][1]] = hist[3][2] - hist[2][2]

\* C2, the part that holds of the code: a credit changes the bucket of the
\* polled title only, creating it or increasing it by the time from the
\* stored last_transition_time to the clock reading of elapsed(), and leaves
\* every other bucket and key as it was.
C2_Frame ==
  [][\A t \in Threads : CreditStep(t) =>
       LET e == IF clock >= last THEN clock - last ELSE 0
       IN  /\ DOMAIN windows' = DOMAIN windows \cup {title[t]}
           /\ windows'[title[t]] =
                IF title[t] \in DOMAIN windows THEN windows[title[t]] + e ELSE e
           /\ \A k \in DOMAIN windows \ {title[t]} : windows'[k] = windows[k]]_vars

\* ===================================================================== C3
\* C3 (skip-safety): a wt_update whose probe returns nothing changes neither
\* the records (keys, values) nor last_transition_time, whatever the state
\* and however many failed probes came before.
C3_SkipSafety ==
  [][\A t \in Threads : SkipStep(t) =>
       /\ windows' = windows
       /\ order' = order
       /\ last' = last]_vars

\* two failed probes in a row, in a state with a bucket and with a clock
\* reading later than last_transition_time
C3_Witness ==
  /\ skips >= 2
  /\ windows # EmptyMap
  /\ last # Uninit
  /\ clock > last

\* ===================================================================== C4
\* C4 (monotone last_transition_time): under a clock that never goes backward
\* and once wt_init has returned, every value stored into
\* last_transition_time is >= the value it replaces, in every interleaving.
\* Checked under SpecMono.
C4_Monotonic ==
  [][inited => last' >= last]_vars

\* ===================================================================== C5
\* C5 (snapshot consistency): of two wt_get_all_windows snapshots taken in
\* order with no wt_init / wt_cleanup between them, every title of the
\* earlier one is in the later one, with a value >= its earlier value.
SnapLE(a, b) ==
  \A i \in 1..Len(a) : \E j \in 1..Len(b) : b[j][1] = a[i][1] /\ b[j][2] >= a[i][2]

C5_SnapshotConsistency ==
  (snapA # None /\ ret # None /\ ret[1].op = "all") => SnapLE(snapA[1], ret[1].val)

\* a later snapshot in which a bucket of the earlier one has grown
C5_Witness ==
  /\ snapA # None
  /\ ret # None
  /\ ret[1].op = "all"
  /\ Len(snapA[1]) >= 1
  /\ \E j \in 1..Len(ret[1].val) :
        /\ ret[1].val[j][1] = snapA[1][1][1]
        /\ ret[1].val[j][2] > snapA[1][1][2]

\* ===================================================================== C6
\* C6 (whole-state exclusive locking): at most one thread is inside a section
\* that reads or writes the records or last_transition_time; whoever holds
\* the timestamp lock, or is between its two lock acquisitions and its
\* return, holds the records lock; a thread that is idle, probing or waiting
\* for the records lock holds no lock; while a thread holds the records lock
\* no step of another thread changes the records or the timestamp; the
\* timestamp changes only in a step of the thread that holds the records
\* lock and holds or takes the timestamp lock; and the records change only in
\* a step of the thread that holds or takes the records lock, or in a
\* wt_cleanup that finds it free.
InSection(t) == pc[t] \in {"init_lockL", "init_store", "add_lockL", "add_credit"}

C6_LockState ==
  /\ Cardinality({t \in Threads : InSection(t)}) <= 1
  /\ \A t \in Threads :
       /\ lLock = t => wLock = t
       /\ InSection(t) => wLock = t
       /\ pc[t] \in {"init_store", "add_credit"} => lLock = t
       /\ ~InSection(t) => wLock # t /\ lLock # t

C6_WholeStateLocking ==
  /\ []C6_LockState
  /\ [][\A t \in Threads :
          (wLock = t /\ pc'[t] = pc[t]) =>
             windows' = windows /\ order' = order /\ last' = last]_vars
  /\ [][last' # last =>
          \E t \in Threads :
             wLock = t /\ (lLock = t \/ lLock' = t) /\ pc'[t] # pc[t]]_vars
  /\ [][windows' # windows =>
          \/ \E t \in Threads : (wLock = t \/ wLock' = t) /\ pc'[t] # pc[t]
          \/ wLock = NoThread /\ CleanupStep]_vars

\* one thread in add_or_update_window holding both locks with a bucket
\* recorded, the other waiting for the records lock
C6_Witness ==
  \E t, u \in Threads :
    /\ t # u
    /\ pc[t] = "add_credit"
    /\ wLock = t
    /\ lLock = t
    /\ pc[u] = "add_lockW"
    /\ windows # EmptyMap

\* ===================================================================== C7
\* C7 (cleanup versus init): wt_cleanup empties the records and leaves
\* last_transition_time as it was; the first credit after a wt_cleanup
\* creates its bucket with the time elapsed since the last_transition_time
\* of before the cleanup; the first credit after a wt_init creates its bucket
\* with the time elapsed since the timestamp that wt_init stored.
C7_CleanupVsInit ==
  /\ [][CleanupStep => windows' = EmptyMap /\ last' = last]_vars
  /\ [][\A t \in Threads :
          (CreditStep(t) /\ clearKind \in {"cleanup", "init"} /\ sinceVal # Uninit) =>
             windows' = OneBucket(title[t],
                          IF clock >= sinceVal THEN clock - sinceVal ELSE 0)]_vars

\* a thread about to credit, first after a wt_cleanup that discarded a
\* bucket, at a clock reading later than the pre-cleanup timestamp
C7_Witness ==
  \E t \in Threads :
    /\ pc[t] = "add_credit"
    /\ clearKind = "cleanup"
    /\ dropped >= 1
    /\ sinceVal # Uninit
    /\ clock > sinceVal

\* ===================================================================== C8
\* C8 (reset): when wt_init returns the records are empty and
\* last_transition_time is the clock reading that wt_init took; until the
\* next credit the records stay empty, whatever was accumulated before, so a
\* snapshot taken then is empty; the keys of the records are always exactly
\* the titles credited since the latest clear.
C8_AfterInit ==
  /\ clearKind = "init" =>
       /\ windows = EmptyMap
       /\ last = sinceVal
       /\ WindowsLen = 0
       /\ (ret # None /\ ret[1].op = "all") => ret[1].val = <<>>
  /\ DOMAIN windows = observed

C8_Reset ==
  /\ []C8_AfterInit
  /\ [][\A t \in Threads :
          InitStoreStep(t) => windows' = EmptyMap /\ last' = clock]_vars

\* a snapshot taken after a wt_init that discarded two buckets
C8_Witness ==
  /\ clearKind = "init"
  /\ dropped = 2
  /\ ret # None
  /\ ret[1].op = "all"

\* ===================================================================== C9
\* C9 (clock anomaly clamping): a credit made at a clock reading earlier than
\* last_transition_time is zero: an existing bucket keeps its value, an
\* absent one is created with value 0, and the call returns; every bucket is
\* >= 0 in every state, and no step lowers a bucket that it keeps.
C9_Clamping ==
  /\ [](\A k \in DOMAIN windows : windows[k] >= 0)
  /\ [][\A t \in Threads :
          (CreditStep(t) /\ clock < last) =>
             /\ windows' = IF title[t] \in DOMAIN windows THEN windows
                           ELSE Credit(windows, title[t], 0)
             /\ wLock' = NoThread
             /\ lLock' = NoThread]_vars
  /\ [][\A k \in DOMAIN windows \cap DOMAIN windows' : windows'[k] >= windows[k]]_vars

\* a thread about to credit at a clock reading earlier than the stored
\* timestamp, to a bucket that holds time
C9_Witness ==
  \E t \in Threads :
    /\ pc[t] = "add_credit"
    /\ clock < last
    /\ title[t] \in DOMAIN windows
    /\ windows[title[t]] > 0

\* ==================================================================== C10
\* C10 (accessor agreement): in one state, wt_get_window_count is the number
\* of distinct titles credited since the latest clear; wt_get_all_windows has
\* that many pairs, with pairwise distinct titles, each a title and its
\* bucket value; wt_get_window_info(i) is the i-th of these pairs for every
\* i below the count and None for every other i; and what an accessor has
\* just returned is that value.
C10_AccessorAgreement ==
  LET all == IterCollect
      n   == WindowsLen
  IN  /\ n = Cardinality(observed)
      /\ Len(all) = n
      /\ \A i, j \in 1..Len(all) : i # j => all[i][1] # all[j][1]
      /\ \A i \in 1..Len(all) :
           all[i][1] \in DOMAIN windows /\ all[i][2] = windows[all[i][1]]
      /\ \A i \in Indices :
           IF i < n THEN IterNth(i) = Some(all[i + 1]) ELSE IterNth(i) = None
      /\ {IterNth(i)[1] : i \in 0..(n - 1)} = {all[i] : i \in 1..Len(all)}
      /\ ret # None =>
           /\ ret[1].op = "count" => ret[1].val = n
           /\ ret[1].op = "all" => ret[1].val = all
           /\ ret[1].op = "info" =>
                IF ret[1].arg < n THEN ret[1].val = Some(all[ret[1].arg + 1])
                ELSE ret[1].val = None

\* wt_get_window_info(1) has just returned the second of two pairs
C10_Witness ==
  /\ ret # None
  /\ ret[1].op = "info"
  /\ ret[1].arg = 1
  /\ WindowsLen = 2
  /\ ret[1].val # None

\* ==================================================================== C13
\* C13 (folding of unobserved intervals): when one or more polls in a row
\* returned nothing and the next poll returns title T, under a clock that
\* never goes backward, T's bucket is created with, or increased by, the
\* whole time from the last_transition_time that the last successful
\* observation (or wt_init) stored to the clock reading of the credit, and
\* no other bucket changes.  Checked under SpecMono.
C13_Folding ==
  [][\A t \in Threads :
       (CreditStep(t) /\ skips >= 1 /\ skipBase # Uninit) =>
          /\ DOMAIN windows' = DOMAIN windows \cup {title[t]}
          /\ windows'[title[t]] =
               (IF title[t] \in DOMAIN windows THEN windows[title[t]] ELSE 0)
               + (clock - skipBase)
          /\ \A k \in DOMAIN windows \ {title[t]} : windows'[k] = windows[k]]_vars

\* a thread about to credit after two failed probes in a row, at a clock
\* reading later than the timestamp of the last successful observation
C13_Witness ==
  \E t \in Threads :
    /\ pc[t] = "add_credit"
    /\ skips >= 2
    /\ skipBase # Uninit
    /\ clock > skipBase

\* ==================================================================== C14
\* a single-threaded run: every call is made by the one thread t1, and the
\* wall clock may advance or be set back between any two of its steps
NextSingle == Tick \/ ClockBack \/ ThreadStep("t1")

SpecSingle == Init /\ [][NextSingle]_vars

\* C14 (single-threaded monotonicity): in a single-threaded run, once
\* wt_init has returned, a successful wt_update never moves
\* last_transition_time to an earlier value, also when the wall clock was
\* set back between two polls.  Checked under SpecSingle.
C14_SingleThreadMonotonic ==
  [][(inited /\ CreditStep("t1")) => last' >= last]_vars

\* ================================================== the other two backends
\* The macOS and linux variants of platform::get_active_window_title are
\* modelled as written: they call add_or_update_window themselves, with the
\* title as the OS gave it and the poll's current_time, and hand no value
\* back to wt_update.

\* the macOS backend, by what the window list holds: "none" when a lookup
\* fails, "panic" when the downcast of the owner attribute is unwrapped on a
\* value that is not a string, "credit" otherwise
MacosProbe(listOk, hasWindow, hasOwner, isString) ==
  IF ~listOk \/ ~hasWindow \/ ~hasOwner THEN "none"
  ELSE IF ~isString THEN "panic"
  ELSE "credit"

\* the linux backend: what it does with the title, and the number of display
\* connections it has opened and not closed when it makes that move
LinuxProbe(opened, window, fetched) ==
  IF ~opened THEN [kind |-> "none", open |-> 0]
  ELSE IF window = 0 THEN [kind |-> "none", open |-> 1]
  ELSE IF fetched THEN [kind |-> "credit", open |-> 1]
  ELSE [kind |-> "none", open |-> 0]

\* the thread unwinds out of wt_update
Panic(t) ==
  /\ pc' = [pc EXCEPT ![t] = "panicked"]
  /\ cur' = [cur EXCEPT ![t] = 0]
  /\ EndRun
  /\ ret' = None
  /\ UNCHANGED <<clock, moves, calls, windows, order, last, wLock, lLock,
                 title, clearKind, sinceVal, observed, snapA, skips,
                 dropped, inited, skipBase>>

\* get_active_window_title of the macOS build
ProbeMacos(t) ==
  /\ pc[t] = "upd_probe"
  /\ backend = "macos"
  /\ \E listOk \in BOOLEAN, hasWindow \in BOOLEAN, hasOwner \in BOOLEAN,
        isString \in BOOLEAN, name \in Titles \cup {""} :
       LET r == MacosProbe(listOk, hasWindow, hasOwner, isString)
       IN  IF r = "none" THEN SkipObservation(t)
           ELSE IF r = "panic" THEN Panic(t)
           ELSE Observe(t, name)
  /\ UNCHANGED <<backend, displays>>
  /\ UNCHANGED main

\* get_active_window_title of the linux build, up to its call of
\* add_or_update_window or its return
ProbeLinux(t) ==
  /\ pc[t] = "upd_probe"
  /\ backend = "linux"
  /\ \E opened \in BOOLEAN, window \in 0..1, fetched \in BOOLEAN,
        name \in Titles \cup {""} :
       LET r == LinuxProbe(opened, window, fetched)
       IN  /\ IF r.kind = "none" THEN SkipObservation(t) ELSE Observe(t, name)
           /\ displays' = displays + r.open
  /\ UNCHANGED backend
  /\ UNCHANGED main

\* unsafe { XCloseDisplay(display) } after add_or_update_window has returned
XCloseDisplay(t) ==
  /\ pc[t] = "x_close"
  /\ displays' = displays - 1
  /\ pc' = [pc EXCEPT ![t] = "idle"]
  /\ ret' = None
  /\ UNCHANGED <<clock, moves, calls, windows, order, last, wLock, lLock, cur,
                 title, owner, runStamp, hist, clearKind, sinceVal, observed,
                 snapA, skips, dropped, inited, skipBase, backend>>
  /\ UNCHANGED main

BackendStep(t) == ProbeMacos(t) \/ ProbeLinux(t) \/ XCloseDisplay(t)

\* calls from any threads in a build for any platform, at one instant of the
\* wall clock
NextBackends == \E t \in Threads : ThreadStep(t) \/ BackendStep(t)

SpecBackends == InitBackends /\ [][NextBackends]_vars

\* every thread is between two calls
BetweenPolls == \A t \in Threads : pc[t] \in {"idle", "panicked"}

\* ==================================================================== C11
\* C11 (no observation without a title): on every backend a poll that finds
\* no window, an invalid handle, no display connection or a zero-length
\* title credits nothing, so the empty string is never a key of the records.
\* Checked under SpecBackends.
C11_NoEmptyKey == "" \notin DOMAIN windows

\* ==================================================================== C12
\* C12 (no operation fails): whatever the OS query yields, also a window
\* owner attribute that is not a string, no call aborts.  Checked under
\* SpecBackends.
C12_NoAbort == \A t \in Threads : pc[t] # "panicked"

\* ==================================================================== C18
\* C18 (display connections): every display connection a poll opens is
\* closed before that poll returns, so no connection is open while every
\* thread is between two calls.  Checked under SpecBackends.
C18_DisplaysClosed == BetweenPolls => displays = 0

\* ==================================================================== C16
\* the positions at which a thread is inside, or about to make, a call of
\* the windowing system
InProbe(t) == pc[t] \in {"upd_probe", "x_close"}

\* C16 (the probe runs unlocked): a thread that is in the OS probe of
\* wt_update holds neither mutex, and while it stays there another thread
\* can take every step of wt_init, and can call wt_cleanup and each of the
\* three accessors, which complete in the one step that takes the lock.
\* Checked under SpecBackends.
C16_ProbeUnlocked ==
  \A t \in Threads :
    InProbe(t) =>
      /\ wLock # t
      /\ lLock # t
      /\ \A u \in Threads \ {t} :
           /\ (pc[u] = "idle" /\ calls < MaxCalls) =>
                 /\ ENABLED WtInit(u)
                 /\ ENABLED WtCleanup(u)
                 /\ ENABLED WtGetWindowCount(u)
                 /\ ENABLED WtGetWindowInfo(u)
                 /\ ENABLED WtGetAllWindows(u)
           /\ pc[u] = "init_lockL" => ENABLED WtInitLockL(u)
           /\ pc[u] = "init_store" => ENABLED WtInitStore(u)

\* one thread is in the probe while another is in the middle of wt_init,
\* holding both mutexes
C16_Witness ==
  \E t \in Threads, u \in Threads :
    /\ t # u
    /\ pc[t] = "upd_probe"
    /\ pc[u] = "init_store"
    /\ wLock = u
    /\ lLock = u

\* ==================================================================== C15
\* the steps of thread t that are not the start of a call
Progress(t) ==
  \/ WtInitLockL(t) \/ WtInitStore(t)
  \/ Probe(t) \/ ProbeMacos(t) \/ ProbeLinux(t) \/ XCloseDisplay(t)
  \/ AddLockL(t) \/ AddCredit(t)

\* fair scheduling: a thread that can run does run, the OS probe returns,
\* and a thread that waits for the WINDOWS mutex gets it if it is free again
\* and again
SpecFair ==
  /\ SpecBackends
  /\ \A t \in Threads : WF_vars(Progress(t)) /\ SF_vars(AddLockW(t))

\* thread t waits for a mutex that thread u holds
WaitsFor(t, u) ==
  \/ pc[t] = "add_lockW" /\ wLock = u
  \/ pc[t] \in {"add_lockL", "init_lockL"} /\ lLock = u

\* C15 (deadlock freedom): the timestamp mutex is taken only by a thread
\* that already holds the records mutex and is never held without it, no
\* two threads wait for each other, and under fair scheduling every call
\* that has started returns (or, on macOS, unwinds out of the probe).
\* Checked under SpecFair.
C15_DeadlockFree ==
  /\ [](\A t \in Threads : lLock = t => wLock = t)
  /\ [](\A t \in Threads, u \in Threads :
          ~(t # u /\ WaitsFor(t, u) /\ WaitsFor(u, t)))
  /\ [][\A t \in Threads :
          /\ (lLock' = t /\ lLock # t) => (wLock = t /\ wLock' = t)
          /\ (wLock' = t /\ wLock # t) => lLock # t]_vars
  /\ \A t \in Threads : (pc[t] # "idle") ~> (pc[t] \in {"idle", "panicked"})

\* a thread waits for the WINDOWS mutex while another thread holds both
C15_Witness ==
  \E t \in Threads, u \in Threads :
    /\ pc[t] = "add_lockW"
    /\ pc[u] = "add_credit"
    /\ wLock = u
    /\ lLock = u

\* ==================================================================== main
\* fn main, run by the one thread t1 in a build for any platform.  Within
\* this specification calls counts the calls made by the statement main is
\* at: 0 before the call, 1 from the call on.
MainThread == "t1"

\* main's statement has made its call and the call has returned
Returned == calls = 1 /\ pc[MainThread] = "idle"

\* main moves on to its next statement; the tracker's state stays as it is
MainMoves ==
  /\ calls' = 0
  /\ ret' = None
  /\ UNCHANGED <<clock, moves, windows, order, last, wLock, lLock, pc, cur,
                 title, owner, runStamp, hist, clearKind, sinceVal, observed,
                 snapA, skips, dropped, inited, skipBase, backend, displays>>

\* last_display.elapsed() >= display_interval
DisplayDue(now, lastDisplay) == now - lastDisplay >= DisplayInterval

\* wt_init();
MainInit ==
  /\ main.at = "init"
  /\ calls = 0
  /\ WtInit(MainThread)

\* let mut last_display = Instant::now(); loop {
MainEnterLoop ==
  /\ main.at = "init"
  /\ Returned
  /\ main' = [main EXCEPT !.at = "update", !.lastDisplay = main.now,
                          !.inits = @ + 1]
  /\ MainMoves

\* wt_update();
MainUpdate ==
  /\ main.at = "update"
  /\ calls = 0
  /\ WtUpdate(MainThread)

\* if last_display.elapsed() >= display_interval {
MainCheck ==
  /\ main.at = "update"
  /\ Returned
  /\ LET d == DisplayDue(main.now, main.lastDisplay)
     IN  main' = [main EXCEPT !.at = IF d THEN "count" ELSE "sleep",
                             !.due = d, !.updates = @ + 1]
  /\ MainMoves

\* wt_get_window_count() for the "Number of tracked windows" line
MainCount ==
  /\ main.at = "count"
  /\ calls = 0
  /\ WtGetWindowCount(MainThread)

\* println!("Number of tracked windows: {}", ..)
MainPrintCount ==
  /\ main.at = "count"
  /\ Returned
  /\ main' = [main EXCEPT !.at = "all", !.printedCount = ret[1].val]
  /\ MainMoves

\* wt_get_all_windows() for the for loop
MainAll ==
  /\ main.at = "all"
  /\ calls = 0
  /\ WtGetAllWindows(MainThread)

\* the for loop printing one line per entry; last_display = Instant::now(); }
MainPrintAll ==
  /\ main.at = "all"
  /\ Returned
  /\ main' = [main EXCEPT !.at = "sleep", !.printedEntries = Len(ret[1].val),
                          !.rendered = TRUE, !.lastDisplay = main.now]
  /\ MainMoves

\* thread::sleep(update_interval); } - the sleep lasts the interval, or as
\* long as a whole display interval; then the next iteration starts
MainSleep ==
  /\ main.at = "sleep"
  /\ main.iter < MaxIters
  /\ \E d \in {UpdateInterval, DisplayInterval} :
       main' = [main EXCEPT !.at = "update", !.now = @ + d, !.iter = @ + 1,
                            !.updates = 0, !.due = FALSE, !.rendered = FALSE,
                            !.printedCount = -1, !.printedEntries = -1]
  /\ UNCHANGED <<clock, moves, calls, windows, order, last, wLock, lLock, pc,
                 cur, title, ret, owner, runStamp, hist, clearKind, sinceVal,
                 observed, snapA, skips, dropped, inited, skipBase, backend,
                 displays>>

NextMain ==
  \/ MainInit \/ WtInitLockL(MainThread) \/ WtInitStore(MainThread)
  \/ MainEnterLoop
  \/ MainUpdate
  \/ Probe(MainThread) \/ ProbeMacos(MainThread) \/ ProbeLinux(MainThread)
  \/ AddLockW(MainThread) \/ AddLockL(MainThread) \/ AddCredit(MainThread)
  \/ XCloseDisplay(MainThread)
  \/ MainCheck
  \/ MainCount \/ MainPrintCount
  \/ MainAll \/ MainPrintAll
  \/ MainSleep

SpecMain == InitBackends /\ [][NextMain]_vars

\* ==================================================================== C17
\* C17 (poll loop, termination): main's loop never ends on its own: the
\* thread that runs main never unwinds out of it.  Checked under SpecMain.
C17_NeverTerminates == pc[MainThread] # "panicked"

\* The rest of the poll loop protocol: wt_init has returned exactly once
\* before the loop; wt_update has returned exactly once in an iteration
\* before anything is rendered and before the sleep; the block is rendered
\* exactly when the display interval had elapsed since the timer was last
\* set; the timer is set again at the end of the block; and the count
\* printed is the number of entries printed.
C17_Protocol ==
  /\ main.inits = (IF main.at = "init" THEN 0 ELSE 1)
  /\ main.at \in {"count", "all", "sleep"} => main.updates = 1
  /\ main.at = "update" => main.updates = 0
  /\ main.at \in {"count", "all"} => main.due
  /\ main.at = "sleep" =>
       /\ main.rendered = main.due
       /\ main.rendered =>
            /\ main.lastDisplay = main.now
            /\ main.printedCount = main.printedEntries
            /\ main.printedCount = WindowsLen
       /\ ~main.rendered => main.now - main.lastDisplay < DisplayInterval

====
